---- MODULE Spec2Model ----
(***************************************************************************)
(* Model of pylint_json2html.py: the score evaluator, the metrics counter, *)
(* the message grouper, the Report constructor and the extended-JSON       *)
(* reporter with the input path of main that reads its output back.        *)
(*                                                                         *)
(* Python values are tagged records [t, i, s]:                             *)
(*   t = "absent"  the key is not in the mapping                           *)
(*   t = "none"    None (JSON null)                                        *)
(*   t = "int"     the integer i                                           *)
(*   t = "str"     the string s                                            *)
(* Floats are modelled as exact rationals num/den in lowest terms.         *)
(***************************************************************************)
EXTENDS Integers, Sequences, FiniteSets, TLC

VARIABLES
  ev_stats,      \* stats_evaluation: the argument
  ev_pc,         \* stats_evaluation: "ready" | "done"
  ev_result,     \* stats_evaluation: what the call produced
  mt_messages,   \* build_messages_metrics: the argument
  mt_pc,         \* build_messages_metrics: "input" | "done"
  mt_metrics,    \* build_messages_metrics: the four tables returned
  in_messages,   \* the message sequence given to the grouper and to Report
  gr_pc,         \* build_messages_modules: "input" | "done" | "raised" | "idle"
  gr_groups,     \* build_messages_modules: the (module, messages) pairs yielded
  rp_pc,         \* Report(...): "input" | "done" | "raised" | "idle"
  rp_args,       \* Report(...): the stats and previous_stats arguments
  report,        \* the Report object's attributes
  rt_pc,         \* reporter run: "collecting" | "closed" | "loaded" | "idle"
  reporter_messages,  \* JsonExtendedReporter._messages
  rt_handled,    \* history: the Message objects handled so far, in order
  rt_closed_with,     \* history: the arguments on_close was called with
  rt_out,        \* the JSON documents written to the reporter's output
  rt_loaded      \* main: the three arguments it decodes for Report

evalVars == <<ev_stats, ev_pc, ev_result>>
metricVars == <<mt_messages, mt_pc, mt_metrics>>
groupVars == <<gr_pc, gr_groups>>
reportVars == <<rp_pc, rp_args, report>>
roundTripVars ==
  <<rt_pc, reporter_messages, rt_handled, rt_closed_with, rt_out, rt_loaded>>

vars ==
  <<evalVars, metricVars, in_messages, groupVars, reportVars, roundTripVars>>

----------------------------------------------------------------------------
(* Bounds *)

MaxCount == 2        \* error/warning/refactor/convention range over 0..MaxCount
MaxStatement == 3    \* statement ranges over -1..MaxStatement
MaxMetricMsgs == 3   \* messages handed to build_messages_metrics
MaxReportMsgs == 3   \* messages handed to build_messages_modules and Report
MaxHandled == 2      \* messages a reporter handles before on_close

----------------------------------------------------------------------------
(* Python values *)

Absent == [t |-> "absent", i |-> 0, s |-> ""]
PyNone == [t |-> "none", i |-> 0, s |-> ""]
PyInt(n) == [t |-> "int", i |-> n, s |-> ""]
PyStr(x) == [t |-> "str", i |-> 0, s |-> x]

\* dict.get(key): None when the key is missing
Get(d, key) == IF d[key].t = "absent" THEN PyNone ELSE d[key]

\* dict.get(key, default): the default only when the key is missing
GetDefault(d, key, default) == IF d[key].t = "absent" THEN default ELSE d[key]

\* Python truthiness of a value
Truthy(v) ==
  CASE v.t = "int" -> v.i # 0
    [] v.t = "str" -> v.s # ""
    [] OTHER -> FALSE

\* the value of `x or None`
OrNone(v) == IF Truthy(v) THEN v ELSE PyNone

----------------------------------------------------------------------------
(* Arithmetic of stats_evaluation.  A value of tag "raise" stands for an   *)
(* exception (TypeError / ValueError) that leaves the function.            *)

Raise == [t |-> "raise", i |-> 0, s |-> ""]

\* 5 * x: an int is multiplied, a str is repeated, None raises TypeError
PyMul5(v) ==
  CASE v.t = "int" -> PyInt(5 * v.i)
    [] v.t = "str" -> v
    [] OTHER -> Raise

\* a + b: int + int adds, str + str concatenates, anything else raises
PyAdd(a, b) ==
  CASE a.t = "int" /\ b.t = "int" -> PyInt(a.i + b.i)
    [] a.t = "str" /\ b.t = "str" -> a
    [] OTHER -> Raise

\* float(x): an int converts; the strings of the model are not numerals, so
\* float raises ValueError on them
PyFloat(v) == IF v.t = "int" THEN v ELSE Raise

RECURSIVE Gcd(_, _)
Gcd(a, b) == IF b = 0 THEN a ELSE Gcd(b, a % b)

Abs(n) == IF n < 0 THEN -n ELSE n

\* the rational n/d (d > 0) in lowest terms
Rat(n, d) ==
  LET g == Gcd(Abs(n), d)
  IN  [k |-> "num", num |-> n \div g, den |-> d \div g]

NoneResult == [k |-> "none", num |-> 0, den |-> 1]
RaiseResult == [k |-> "raise", num |-> 0, den |-> 1]

\* Variant: the score clipped to [0, 10].
stats_evaluation_clamped(stats) ==
  LET statement == Get(stats, "statement")
      error == GetDefault(stats, "error", PyInt(0))
      warning == GetDefault(stats, "warning", PyInt(0))
      refactor == GetDefault(stats, "refactor", PyInt(0))
      convention == GetDefault(stats, "convention", PyInt(0))
      malus == PyFloat(PyAdd(PyAdd(PyAdd(PyMul5(error), warning), refactor), convention))
  IN  IF ~Truthy(statement) THEN NoneResult
      ELSE IF statement.t # "int" THEN RaiseResult
      ELSE IF statement.i <= 0 THEN NoneResult
      ELSE IF malus.t = "raise" THEN RaiseResult
      ELSE IF malus.i > statement.i THEN Rat(0, 1)
      ELSE Rat(10 * statement.i - 10 * malus.i, statement.i)

\* Variant: the malus is computed before the statement test.
stats_evaluation_malus_first(stats) ==
  LET statement == Get(stats, "statement")
      error == GetDefault(stats, "error", PyInt(0))
      warning == GetDefault(stats, "warning", PyInt(0))
      refactor == GetDefault(stats, "refactor", PyInt(0))
      convention == GetDefault(stats, "convention", PyInt(0))
      malus == PyFloat(PyAdd(PyAdd(PyAdd(PyMul5(error), warning), refactor), convention))
  IN  IF malus.t = "raise" THEN RaiseResult
      ELSE IF ~Truthy(statement) THEN NoneResult
      ELSE IF statement.t # "int" THEN RaiseResult
      ELSE IF statement.i <= 0 THEN NoneResult
      ELSE Rat(10 * statement.i - 10 * malus.i, statement.i)

\* stats_evaluation(stats)
\*   `not statement` is decided first; `statement <= 0` raises TypeError on a
\*   str; then malus = float(5*error + warning + refactor + convention),
\*   malus_ratio = malus / statement, and 10.0 - malus_ratio * 10.
stats_evaluation(stats) ==
  LET statement == Get(stats, "statement")
      error == GetDefault(stats, "error", PyInt(0))
      warning == GetDefault(stats, "warning", PyInt(0))
      refactor == GetDefault(stats, "refactor", PyInt(0))
      convention == GetDefault(stats, "convention", PyInt(0))
      malus == PyFloat(PyAdd(PyAdd(PyAdd(PyMul5(error), warning), refactor), convention))
  IN  IF ~Truthy(statement) THEN NoneResult
      ELSE IF statement.t # "int" THEN RaiseResult
      ELSE IF statement.i <= 0 THEN NoneResult
      ELSE IF malus.t = "raise" THEN RaiseResult
      ELSE LET malus_ratio == Rat(malus.i, statement.i)
           IN  Rat(10 * malus_ratio.den - malus_ratio.num * 10, malus_ratio.den)

----------------------------------------------------------------------------
(* Messages: one mapping per diagnostic, with the five keys the report     *)
(* model reads.                                                            *)

Message(type, module, symbol, path, line) ==
  [type |-> type, module |-> module, symbol |-> symbol, path |-> path,
   line |-> line]

----------------------------------------------------------------------------
(* collections.Counter: a mapping from the keys seen to their counts,      *)
(* built by one pass over the iterable.                                    *)

EmptyCounter == [k \in {} |-> 0]

\* Variant: a key seen again keeps its first count.
CounterAdd_no_increment(c, key) ==
  IF key \in DOMAIN c THEN c ELSE c @@ (key :> 1)

\* Counter's update for one element: c[key] = c.get(key, 0) + 1
CounterAdd(c, key) ==
  IF key \in DOMAIN c
    THEN [c EXCEPT ![key] = @ + 1]
    ELSE c @@ (key :> 1)

RECURSIVE CounterFrom(_, _)
CounterFrom(c, keys) ==
  IF keys = <<>> THEN c
  ELSE CounterFrom(CounterAdd(c, Head(keys)), Tail(keys))

\* Counter(iterable)
Counter(keys) == CounterFrom(EmptyCounter, keys)

\* Variant: the key is taken as it is, without `or None`.
MetricKey_raw(line, field) == Get(line, field)

\* line.get(field) or None
MetricKey(line, field) == OrNone(Get(line, field))

\* build_messages_metrics(messages)
build_messages_metrics(messages) ==
  LET keys(field) == [n \in 1..Len(messages) |-> MetricKey(messages[n], field)]
  IN  [types |-> Counter(keys("type")),
       modules |-> Counter(keys("module")),
       symbols |-> Counter(keys("symbol")),
       paths |-> Counter(keys("path"))]

NoMetrics ==
  [types |-> EmptyCounter, modules |-> EmptyCounter, symbols |-> EmptyCounter,
   paths |-> EmptyCounter]

----------------------------------------------------------------------------
(* Inputs of build_messages_metrics: every way a field can be without a    *)
(* value (missing, null, empty string) occurs in some dimension.           *)

MetricMessages ==
  { Message(ty, mo, sy, pa, PyInt(1)) :
      ty \in {PyNone, PyStr("error")},
      mo \in {PyStr("a"), PyStr("b")},
      sy \in {PyStr(""), PyStr("unused-import")},
      pa \in {Absent, PyStr("a.py")} }

MetricsIdle ==
  /\ mt_messages = <<>>
  /\ mt_pc = "idle"
  /\ mt_metrics = NoMetrics

----------------------------------------------------------------------------
(* sorted(): comparison of keys, and the stable sort built on it           *)

\* the strings the model orders, in Python's (lexicographic) order
OrderedStrings == <<"", "a", "a.py", "b.py", "x">>

StrIndex(x) == CHOOSE n \in 1..Len(OrderedStrings) : OrderedStrings[n] = x

\* a < b for two ints or two strs
PyLess(a, b) ==
  IF a.t = "int" THEN a.i < b.i ELSE StrIndex(a.s) < StrIndex(b.s)

\* sorted() raises TypeError when `<` meets None or two different types.
\* A list of two or more elements has every element compared at least once,
\* so it raises exactly when some key is None or two keys differ in type.
SortRaises(keys) ==
  /\ Len(keys) >= 2
  /\ \/ \E a \in 1..Len(keys) : keys[a].t = "none"
     \/ \E a, b \in 1..Len(keys) : keys[a].t # keys[b].t

\* pairs: a sequence of [k |-> key, v |-> item], already sorted by k;
\* x goes after every element whose key is not greater (stable)
InsertByKey(pairs, x) ==
  LET notGreater == {n \in 1..Len(pairs) : ~PyLess(x.k, pairs[n].k)}
      at == Cardinality(notGreater)
  IN  SubSeq(pairs, 1, at) \o <<x>> \o SubSeq(pairs, at + 1, Len(pairs))

RECURSIVE SortPairs(_, _)
SortPairs(done, todo) ==
  IF todo = <<>> THEN done
  ELSE SortPairs(InsertByKey(done, Head(todo)), Tail(todo))

\* sorted(items, key=...): pairs carries each item with its key.  The result
\* is [raised, val]; val is meaningful only when raised is FALSE.
Sorted(pairs) ==
  IF SortRaises([n \in 1..Len(pairs) |-> pairs[n].k])
    THEN [raised |-> TRUE, val |-> <<>>]
    ELSE [raised |-> FALSE,
          val |-> LET q == SortPairs(<<>>, pairs)
                  IN  [n \in 1..Len(q) |-> q[n].v]]

----------------------------------------------------------------------------
(* build_messages_modules                                                  *)

ModuleInfo(name, path) == [name |-> name, path |-> path]

\* data[module_info].append(line) on the defaultdict(list); the dict keeps
\* its keys in the order of first insertion
DataAppend(data, module_info, line) ==
  IF \E n \in 1..Len(data) : data[n].key = module_info
    THEN [n \in 1..Len(data) |->
            IF data[n].key = module_info
              THEN [key |-> data[n].key, msgs |-> Append(data[n].msgs, line)]
              ELSE data[n]]
    ELSE Append(data, [key |-> module_info, msgs |-> <<line>>])

RECURSIVE GroupData(_, _)
GroupData(data, messages) ==
  IF messages = <<>> THEN data
  ELSE LET line == Head(messages)
           module_name == Get(line, "module")
           module_path == Get(line, "path")
           module_info == ModuleInfo(module_name, module_path)
       IN  GroupData(DataAppend(data, module_info, line), Tail(messages))

\* sorted(module_messages, key=lambda x: x.get('line'))
SortedByLine(module_messages) ==
  Sorted([n \in 1..Len(module_messages) |->
            [k |-> Get(module_messages[n], "line"), v |-> module_messages[n]]])

\* the second loop: one pair is yielded per item of data, until a sort raises
RECURSIVE YieldGroups(_, _)
YieldGroups(yielded, items) ==
  IF items = <<>> THEN [raised |-> FALSE, groups |-> yielded]
  ELSE LET s == SortedByLine(Head(items).msgs)
       IN  IF s.raised THEN [raised |-> TRUE, groups |-> yielded]
           ELSE YieldGroups(
                  Append(yielded, [key |-> Head(items).key, msgs |-> s.val]),
                  Tail(items))

\* build_messages_modules(messages), run to exhaustion
build_messages_modules(messages) ==
  YieldGroups(<<>>, GroupData(<<>>, messages))

----------------------------------------------------------------------------
(* Report.__init__                                                         *)

EmptyStats ==
  [statement |-> Absent, error |-> Absent, warning |-> Absent,
   refactor |-> Absent, convention |-> Absent]

\* an optional stats argument: given = FALSE is None
NoStats == [given |-> FALSE, d |-> EmptyStats]
StatsArg(d) == [given |-> TRUE, d |-> d]

\* `if stats:` is false for None and for an empty dict
StatsTruthy(stats) ==
  /\ stats.given
  /\ \E key \in DOMAIN stats.d : stats.d[key].t # "absent"

\* sorted(self._module_messages.items(), key=lambda x: x[0].path)
SortedByPath(items) ==
  Sorted([n \in 1..Len(items) |-> [k |-> items[n].key.path, v |-> items[n]]])

UnsetReport ==
  [_messages |-> <<>>, _module_messages |-> <<>>, modules |-> <<>>,
   metrics |-> NoMetrics, score |-> NoneResult,
   previous_score |-> NoneResult]

\* Report(messages, stats, previous_stats): [raised, obj].  When a step
\* raises, obj holds the attributes assigned before it.
ReportInit(messages, stats, previous_stats) ==
  LET built == build_messages_modules(messages)
      r1 == [UnsetReport EXCEPT !._messages = messages]
      r2 == [r1 EXCEPT !._module_messages = built.groups]
      sorted_modules == SortedByPath(built.groups)
      r3 == [r2 EXCEPT !.modules = sorted_modules.val,
                       !.metrics = build_messages_metrics(messages)]
      score == IF StatsTruthy(stats)
                 THEN stats_evaluation(stats.d) ELSE NoneResult
      r4 == [r3 EXCEPT !.score = score]
      previous_score == IF StatsTruthy(previous_stats)
                          THEN stats_evaluation(previous_stats.d)
                          ELSE NoneResult
      r5 == [r4 EXCEPT !.previous_score = previous_score]
  IN  IF built.raised THEN [raised |-> TRUE, obj |-> r1]
      ELSE IF sorted_modules.raised THEN [raised |-> TRUE, obj |-> r2]
      ELSE IF score.k = "raise" THEN [raised |-> TRUE, obj |-> r3]
      ELSE IF previous_score.k = "raise" THEN [raised |-> TRUE, obj |-> r4]
      ELSE [raised |-> FALSE, obj |-> r5]

----------------------------------------------------------------------------
(* Inputs of the grouper and of Report *)

ReportMessages ==
  { Message(PyStr("error"), mo, PyStr("x"), pa, li) :
      mo \in {Absent, PyStr("a")},
      pa \in {Absent, PyStr("a.py"), PyStr("b.py")},
      li \in {PyNone, PyInt(1), PyInt(2)} }

ReportStats ==
  { NoStats,
    StatsArg(EmptyStats),
    StatsArg([EmptyStats EXCEPT !.statement = PyInt(2), !.error = PyInt(1)]),
    StatsArg([EmptyStats EXCEPT !.statement = PyInt(0), !.error = PyInt(1)]) }

ReportIdle ==
  /\ in_messages = <<>>
  /\ gr_pc = "idle"
  /\ gr_groups = <<>>
  /\ rp_pc = "idle"
  /\ rp_args = [stats |-> NoStats, previous_stats |-> NoStats]
  /\ report = UnsetReport

----------------------------------------------------------------------------
(* The extended reporter and the extended input path.  Values that travel  *)
(* through JSON are tagged records [t, i, s, m, q]: beside "absent",       *)
(* "none", "int" and "str" there are                                       *)
(*   t = "set"   the Python set with members m                             *)
(*   t = "list"  the Python list with items q                              *)
(* JSON values are tagged records [j, n, s, a] with j in "missing",        *)
(* "null", "number", "string", "array".                                    *)

RAbsent == [t |-> "absent", i |-> 0, s |-> "", m |-> {}, q |-> <<>>]
RNone == [t |-> "none", i |-> 0, s |-> "", m |-> {}, q |-> <<>>]
RInt(n) == [t |-> "int", i |-> n, s |-> "", m |-> {}, q |-> <<>>]
RStr(x) == [t |-> "str", i |-> 0, s |-> x, m |-> {}, q |-> <<>>]
RSet(members) == [t |-> "set", i |-> 0, s |-> "", m |-> members, q |-> <<>>]
RList(items) == [t |-> "list", i |-> 0, s |-> "", m |-> {}, q |-> items]

JMissing == [j |-> "missing", n |-> 0, s |-> "", a |-> <<>>]
JNull == [j |-> "null", n |-> 0, s |-> "", a |-> <<>>]
JNumber(n) == [j |-> "number", n |-> n, s |-> "", a |-> <<>>]
JString(x) == [j |-> "string", n |-> 0, s |-> x, a |-> <<>>]
JArray(items) == [j |-> "array", n |-> 0, s |-> "", a |-> items]

\* the members written for null, which has none
EncodeNoMembers == [statement |-> JMissing, dependencies |-> JMissing]

\* str(x) or '': a str is itself, None prints as "None"
StrOrEmpty(v) ==
  LET text == IF v.t = "str" THEN v ELSE RStr("None")
  IN  IF text.s # "" THEN text ELSE RStr("")

\* JsonExtendedReporter.handle_message: self._messages after the append
handle_message(messages, msg) ==
  Append(messages,
    ("type" :> msg.category) @@ ("module" :> msg.module) @@ ("obj" :> msg.obj)
    @@ ("line" :> msg.line) @@ ("column" :> msg.column)
    @@ ("path" :> msg.path) @@ ("symbol" :> msg.symbol)
    @@ ("message" :> StrOrEmpty(msg.msg)) @@ ("message-id" :> msg.msg_id))

\* Variant: the previous run's stats are written under both keys.
on_close_reports_previous_twice(messages, stats, previous_stats) ==
  [messages |-> messages, stats |-> previous_stats, previous |-> previous_stats]

\* JsonExtendedReporter.on_close: the `reports` dict it serialises
on_close_reports(messages, stats, previous_stats) ==
  [messages |-> messages, stats |-> stats, previous |-> previous_stats]

\* every sequence that lists each member of the set once
Orderings(members) ==
  {q \in [1..Cardinality(members) -> members] :
     \A a, b \in 1..Cardinality(members) : q[a] = q[b] => a = b}

\* JSONSetEncoder.default: list(o) for a set, in an order Python does not fix
JSONSetEncoder_default(o) == {RList(q) : q \in Orderings(o.m)}

\* the JSON texts json.dumps may write for one value
EncodeValue(v) ==
  CASE v.t = "absent" -> {JMissing}
    [] v.t = "none" -> {JNull}
    [] v.t = "int" -> {JNumber(v.i)}
    [] v.t = "str" -> {JString(v.s)}
    [] v.t = "list" -> {JArray(v.q)}
    [] v.t = "set" -> {JArray(l.q) : l \in JSONSetEncoder_default(v)}

\* ... for the entries `keys` of a dict with str keys: one member per key
RECURSIVE EncodeEntries(_, _)
EncodeEntries(d, keys) ==
  IF keys = {} THEN {<<>>}
  ELSE LET key == CHOOSE x \in keys : TRUE
       IN  {(key :> e) @@ rest :
              e \in EncodeValue(d[key]), rest \in EncodeEntries(d, keys \ {key})}

EncodeDict(d) == EncodeEntries(d, DOMAIN d)

\* ... for an optional dict (None is written as null)
EncodeOptionalDict(arg) ==
  IF arg.given
    THEN {[isnull |-> FALSE, members |-> o] : o \in EncodeDict(arg.d)}
    ELSE {[isnull |-> TRUE, members |-> EncodeNoMembers]}

\* ... for the list of message dicts
RECURSIVE EncodeMessages(_)
EncodeMessages(messages) ==
  IF messages = <<>> THEN {<<>>}
  ELSE {<<first>> \o rest :
          first \in EncodeDict(Head(messages)),
          rest \in EncodeMessages(Tail(messages))}

\* json.dumps(reports, cls=JSONSetEncoder, indent=4)
json_dumps(reports) ==
  {[messages |-> ms, stats |-> st, previous |-> pr] :
     ms \in EncodeMessages(reports.messages),
     st \in EncodeOptionalDict(reports.stats),
     pr \in EncodeOptionalDict(reports.previous)}

\* json.load for one value
DecodeValue(jv) ==
  CASE jv.j = "missing" -> RAbsent
    [] jv.j = "null" -> RNone
    [] jv.j = "number" -> RInt(jv.n)
    [] jv.j = "string" -> RStr(jv.s)
    [] jv.j = "array" -> RList(jv.a)

DecodeDict(o) == [key \in DOMAIN o |-> DecodeValue(o[key])]

DecodeOptionalDict(doc) ==
  IF doc.isnull
    THEN [given |-> FALSE, d |-> DecodeDict(doc.members)]
    ELSE [given |-> TRUE, d |-> DecodeDict(doc.members)]

\* json.load(file_pointer)
json_load(doc) ==
  [messages |-> [n \in 1..Len(doc.messages) |-> DecodeDict(doc.messages[n])],
   stats |-> DecodeOptionalDict(doc.stats),
   previous |-> DecodeOptionalDict(doc.previous)]

\* main, input_format == EXTENDED_JSON: the arguments given to Report
main_extended_arguments(json_data) ==
  [messages |-> json_data.messages,
   stats |-> json_data.stats,
   previous_stats |-> json_data.previous]

----------------------------------------------------------------------------
(* Inputs of the reporter *)

\* the stats dict of a pylint run: counts, and a set-valued entry
RtNoKeys == [statement |-> RAbsent, dependencies |-> RAbsent]

RtStatsArgs ==
  {[given |-> FALSE, d |-> RtNoKeys]} \cup
  {[given |-> TRUE, d |-> [statement |-> st, dependencies |-> dp]] :
     st \in {RAbsent, RInt(3)},
     dp \in {RAbsent, RSet({}), RSet({"a", "b"})}}

\* pylint Message objects
RtMsgObjects ==
  {[category |-> RStr(ca), module |-> RStr("a"), obj |-> RStr(""),
    line |-> li, column |-> RInt(0), path |-> RStr("a.py"),
    symbol |-> RStr("x"), msg |-> RStr(tx), msg_id |-> RStr("E0001")] :
     ca \in {"error", "warning"},
     li \in {RNone, RInt(1)},
     tx \in {"", "text"}}

NothingLoaded ==
  [messages |-> <<>>,
   stats |-> [given |-> FALSE, d |-> RtNoKeys],
   previous_stats |-> [given |-> FALSE, d |-> RtNoKeys]]

NotClosed ==
  [stats |-> [given |-> FALSE, d |-> RtNoKeys],
   previous_stats |-> [given |-> FALSE, d |-> RtNoKeys]]

RoundTripIdle ==
  /\ rt_pc = "idle"
  /\ reporter_messages = <<>>
  /\ rt_handled = <<>>
  /\ rt_closed_with = NotClosed
  /\ rt_out = <<>>
  /\ rt_loaded = NothingLoaded

----------------------------------------------------------------------------
(* Inputs of stats_evaluation *)

CountValues ==
  {Absent, PyNone, PyStr("x")} \cup {PyInt(n) : n \in 0..MaxCount}

StatementValues ==
  {Absent, PyNone, PyStr(""), PyStr("x")} \cup {PyInt(n) : n \in -1..MaxStatement}

StatsDicts ==
  [statement : StatementValues, error : CountValues, warning : CountValues,
   refactor : CountValues, convention : CountValues]

----------------------------------------------------------------------------
(* Specification of the score evaluator *)

InitEval ==
  /\ ev_stats \in StatsDicts
  /\ ev_pc = "ready"
  /\ ev_result = NoneResult
  /\ MetricsIdle
  /\ ReportIdle
  /\ RoundTripIdle

CallStatsEvaluation ==
  /\ ev_pc = "ready"
  /\ ev_result' = stats_evaluation(ev_stats)
  /\ ev_pc' = "done"
  /\ UNCHANGED <<ev_stats, metricVars, in_messages, groupVars, reportVars, roundTripVars>>

NextEval == CallStatsEvaluation

SpecEval == InitEval /\ [][NextEval]_vars

----------------------------------------------------------------------------
(* Specification of the metrics counter *)

EvalIdle ==
  /\ ev_stats = EmptyStats
  /\ ev_pc = "idle"
  /\ ev_result = NoneResult

InitMetrics ==
  /\ mt_messages = <<>>
  /\ mt_pc = "input"
  /\ mt_metrics = NoMetrics
  /\ EvalIdle
  /\ ReportIdle
  /\ RoundTripIdle

\* the caller appends one more message to the sequence it will pass
MetricsAddMessage ==
  /\ mt_pc = "input"
  /\ Len(mt_messages) < MaxMetricMsgs
  /\ \E m \in MetricMessages : mt_messages' = Append(mt_messages, m)
  /\ UNCHANGED <<mt_pc, mt_metrics, evalVars, in_messages, groupVars, reportVars, roundTripVars>>

CallBuildMessagesMetrics ==
  /\ mt_pc = "input"
  /\ mt_metrics' = build_messages_metrics(mt_messages)
  /\ mt_pc' = "done"
  /\ UNCHANGED <<mt_messages, evalVars, in_messages, groupVars, reportVars, roundTripVars>>

NextMetrics == MetricsAddMessage \/ CallBuildMessagesMetrics

SpecMetrics == InitMetrics /\ [][NextMetrics]_vars

----------------------------------------------------------------------------
(* Specification of the grouper and of Report construction *)

InitReport ==
  /\ in_messages = <<>>
  /\ gr_pc = "input"
  /\ gr_groups = <<>>
  /\ rp_pc = "input"
  /\ rp_args = [stats |-> NoStats, previous_stats |-> NoStats]
  /\ report = UnsetReport
  /\ EvalIdle
  /\ MetricsIdle
  /\ RoundTripIdle

\* the caller appends one more message to the sequence it will pass
ReportAddMessage ==
  /\ gr_pc = "input"
  /\ rp_pc = "input"
  /\ Len(in_messages) < MaxReportMsgs
  /\ \E m \in ReportMessages : in_messages' = Append(in_messages, m)
  /\ UNCHANGED <<evalVars, metricVars, groupVars, reportVars, roundTripVars>>

\* list(build_messages_modules(in_messages))
CallBuildMessagesModules ==
  /\ gr_pc = "input"
  /\ LET r == build_messages_modules(in_messages)
     IN  /\ gr_groups' = r.groups
         /\ gr_pc' = IF r.raised THEN "raised" ELSE "done"
  /\ UNCHANGED <<evalVars, metricVars, in_messages, reportVars, roundTripVars>>

\* Report(in_messages, stats, previous_stats)
ConstructReport ==
  /\ rp_pc = "input"
  /\ \E stats \in ReportStats, previous_stats \in ReportStats :
       LET r == ReportInit(in_messages, stats, previous_stats)
       IN  /\ rp_args' = [stats |-> stats, previous_stats |-> previous_stats]
           /\ report' = r.obj
           /\ rp_pc' = IF r.raised THEN "raised" ELSE "done"
  /\ UNCHANGED <<evalVars, metricVars, in_messages, groupVars, roundTripVars>>

NextReport ==
  ReportAddMessage \/ CallBuildMessagesModules \/ ConstructReport

SpecReport == InitReport /\ [][NextReport]_vars

----------------------------------------------------------------------------
(* Specification of a reporter run read back by main *)

InitRoundTrip ==
  /\ rt_pc = "collecting"
  /\ reporter_messages = <<>>
  /\ rt_handled = <<>>
  /\ rt_closed_with = NotClosed
  /\ rt_out = <<>>
  /\ rt_loaded = NothingLoaded
  /\ EvalIdle
  /\ MetricsIdle
  /\ ReportIdle

\* pylint reports one message to the reporter
HandleMessage ==
  /\ rt_pc = "collecting"
  /\ Len(rt_handled) < MaxHandled
  /\ \E msg \in RtMsgObjects :
       /\ reporter_messages' = handle_message(reporter_messages, msg)
       /\ rt_handled' = Append(rt_handled, msg)
  /\ UNCHANGED <<rt_pc, rt_closed_with, rt_out, rt_loaded>>
  /\ UNCHANGED <<evalVars, metricVars, in_messages, groupVars, reportVars>>

\* pylint ends the run: on_close(stats, previous_stats) prints the document
OnClose ==
  /\ rt_pc = "collecting"
  /\ \E stats \in RtStatsArgs, previous_stats \in RtStatsArgs :
       /\ rt_closed_with' = [stats |-> stats, previous_stats |-> previous_stats]
       /\ \E doc \in json_dumps(
                       on_close_reports(reporter_messages, stats, previous_stats)) :
            rt_out' = Append(rt_out, doc)
  /\ rt_pc' = "closed"
  /\ UNCHANGED <<reporter_messages, rt_handled, rt_loaded>>
  /\ UNCHANGED <<evalVars, metricVars, in_messages, groupVars, reportVars>>

\* main reads the document with --input-format jsonextended
MainLoadExtended ==
  /\ rt_pc = "closed"
  /\ rt_loaded' = main_extended_arguments(json_load(rt_out[1]))
  /\ rt_pc' = "loaded"
  /\ UNCHANGED <<reporter_messages, rt_handled, rt_closed_with, rt_out>>
  /\ UNCHANGED <<evalVars, metricVars, in_messages, groupVars, reportVars>>

NextRoundTrip == HandleMessage \/ OnClose \/ MainLoadExtended

SpecRoundTrip == InitRoundTrip /\ [][NextRoundTrip]_vars

----------------------------------------------------------------------------
(* Claims about the score evaluator (checked under SpecEval) *)

IsCount(v) == v.t \in {"absent", "int"}
CountOrZero(v) == IF v.t = "int" THEN v.i ELSE 0

WellFormedCounts(stats) ==
  /\ IsCount(stats.error)
  /\ IsCount(stats.warning)
  /\ IsCount(stats.refactor)
  /\ IsCount(stats.convention)

Malus(stats) ==
  5 * CountOrZero(stats.error) + CountOrZero(stats.warning)
    + CountOrZero(stats.refactor) + CountOrZero(stats.convention)

\* C3: for a stats mapping with statement > 0 whose counts are numbers or
\* missing (missing counted as 0), the call returns the number
\* 10 - 10 * (5*error + warning + refactor + convention) / statement,
\* unclamped: it is negative whenever the malus exceeds statement.
C3_ScoreFormula ==
  (/\ ev_pc = "done"
   /\ ev_stats.statement.t = "int"
   /\ ev_stats.statement.i > 0
   /\ WellFormedCounts(ev_stats))
  => /\ ev_result.k = "num"
     /\ ev_result.den > 0
     /\ ev_result.num * ev_stats.statement.i
          = (10 * ev_stats.statement.i - 10 * Malus(ev_stats)) * ev_result.den
     /\ (Malus(ev_stats) > ev_stats.statement.i => ev_result.num < 0)

\* a score below 0 was returned, from a mapping with a missing count
C3_Witness ==
  /\ ev_pc = "done"
  /\ ev_stats.statement = PyInt(1)
  /\ ev_stats.error = PyInt(1)
  /\ ev_stats.warning = Absent
  /\ WellFormedCounts(ev_stats)
  /\ ev_result = [k |-> "num", num |-> -40, den |-> 1]

\* C4: with statement missing, null or a number, the call returns the
\* undefined result exactly when statement is missing/null or <= 0, whatever
\* error, warning, refactor and convention hold (malformed values included);
\* the undefined result is not the number 0.
C4_UndefinedIff ==
  (/\ ev_pc = "done"
   /\ ev_stats.statement.t \in {"absent", "none", "int"})
  => /\ (ev_result.k = "none")
          <=> (\/ ev_stats.statement.t \in {"absent", "none"}
               \/ ev_stats.statement.i <= 0)
     /\ (ev_result.k = "none" => ev_result # Rat(0, 1))

\* statement is 0 and a count is malformed: the result is undefined
C4_Witness ==
  /\ ev_pc = "done"
  /\ ev_stats.statement = PyInt(0)
  /\ ev_stats.error = PyStr("x")
  /\ ev_stats.warning = PyNone
  /\ ev_result.k = "none"

\* C7: stats_evaluation never raises, whatever the five fields hold.
C7_NeverRaises ==
  ev_pc = "done" => ev_result.k # "raise"

----------------------------------------------------------------------------
(* Claims about the metrics counter (checked under SpecMetrics) *)

RECURSIVE SumOver(_, _)
SumOver(c, keys) ==
  IF keys = {} THEN 0
  ELSE LET key == CHOOSE x \in keys : TRUE
       IN  c[key] + SumOver(c, keys \ {key})

CounterTotal(c) == SumOver(c, DOMAIN c)

MetricTables(metrics) ==
  <<metrics.types, metrics.modules, metrics.symbols, metrics.paths>>

MetricFields == <<"type", "module", "symbol", "path">>

\* C2: in each of the four tables the counts sum to the number of input
\* messages, and an empty input gives four empty tables.
C2_CountsSumToTotal ==
  mt_pc = "done" =>
    /\ \A d \in 1..4 :
         CounterTotal(MetricTables(mt_metrics)[d]) = Len(mt_messages)
    /\ (mt_messages = <<>> =>
          \A d \in 1..4 : DOMAIN MetricTables(mt_metrics)[d] = {})

\* the tables of a full-length input with a repeated and a missing value
C2_Witness ==
  /\ mt_pc = "done"
  /\ Len(mt_messages) = MaxMetricMsgs
  /\ \E k \in DOMAIN mt_metrics.types : mt_metrics.types[k] >= 2
  /\ Cardinality(DOMAIN mt_metrics.modules) = 2

\* the bucket the claim assigns to a field: missing, null and the empty
\* string are the none bucket
Bucket(m, field) ==
  IF m[field].t \in {"absent", "none"} \/ m[field] = PyStr("")
    THEN PyNone ELSE m[field]

IndexPermutations(n) == Permutations(1..n)

\* C8: in each dimension the keys are exactly the buckets observed, each
\* count is the number of messages in that bucket and is never 0, and every
\* permutation of the input gives the same four tables.
C8_KeysAndCounts ==
  mt_pc = "done" =>
    /\ \A d \in 1..4 :
         LET table == MetricTables(mt_metrics)[d]
             field == MetricFields[d]
         IN  /\ DOMAIN table =
                  {Bucket(mt_messages[n], field) : n \in 1..Len(mt_messages)}
             /\ \A k \in DOMAIN table :
                  /\ table[k] =
                       Cardinality({n \in 1..Len(mt_messages) :
                                      Bucket(mt_messages[n], field) = k})
                  /\ table[k] > 0
    /\ \A p \in IndexPermutations(Len(mt_messages)) :
         build_messages_metrics(
           [n \in 1..Len(mt_messages) |-> mt_messages[p[n]]]) = mt_metrics

\* null, "" and a missing key each landed in a none bucket, beside real keys
C8_Witness ==
  /\ mt_pc = "done"
  /\ Len(mt_messages) = MaxMetricMsgs
  /\ \E n \in 1..Len(mt_messages) : mt_messages[n].type = PyNone
  /\ \E n \in 1..Len(mt_messages) : mt_messages[n].symbol = PyStr("")
  /\ \E n \in 1..Len(mt_messages) : mt_messages[n].path = Absent
  /\ mt_messages[1] # mt_messages[2]
  /\ PyNone \in DOMAIN mt_metrics.types
  /\ PyNone \in DOMAIN mt_metrics.symbols
  /\ PyNone \in DOMAIN mt_metrics.paths
  /\ Cardinality(DOMAIN mt_metrics.types) >= 2

----------------------------------------------------------------------------
(* Claims about the grouper and Report (checked under SpecReport) *)

RECURSIVE SeqSum(_)
SeqSum(q) == IF q = <<>> THEN 0 ELSE Head(q) + SeqSum(Tail(q))

\* how many times x occurs in the sequence q
Occurrences(q, x) == Cardinality({n \in 1..Len(q) : q[n] = x})

\* the groups partition the messages: keys are distinct, every message is in
\* exactly one group, as often as in the input, under its own (module, path)
IsPartition(groups, messages) ==
  /\ \A a, b \in 1..Len(groups) : groups[a].key = groups[b].key => a = b
  /\ \A n \in 1..Len(messages) :
       LET m == messages[n]
           holders == {g \in 1..Len(groups) : Occurrences(groups[g].msgs, m) > 0}
       IN  /\ Cardinality(holders) = 1
           /\ \A g \in holders :
                /\ Occurrences(groups[g].msgs, m) = Occurrences(messages, m)
                /\ groups[g].key = ModuleInfo(Get(m, "module"), Get(m, "path"))
  /\ SeqSum([g \in 1..Len(groups) |-> Len(groups[g].msgs)]) = Len(messages)

\* C1: for every message sequence the groups build_messages_modules
\* produces, and the groups a Report stores, partition the input.
C1_GroupsPartitionInput ==
  /\ gr_pc \in {"done", "raised"} => IsPartition(gr_groups, in_messages)
  /\ rp_pc = "done" => IsPartition(report._module_messages, in_messages)

\* a line that is absent or null counts as lower than any line number
LineNotAfter(a, b) ==
  \/ Get(a, "line").t = "none"
  \/ /\ Get(a, "line").t = "int"
     /\ Get(b, "line").t = "int"
     /\ Get(a, "line").i <= Get(b, "line").i

\* C5: grouping always completes, and within every group the messages are in
\* ascending line order with the messages without a line first.
C5_GroupsSortedByLine ==
  gr_pc # "input" =>
    /\ gr_pc = "done"
    /\ \A g \in 1..Len(gr_groups) :
         \A a, b \in 1..Len(gr_groups[g].msgs) :
           a < b => LineNotAfter(gr_groups[g].msgs[a], gr_groups[g].msgs[b])

AllLinesPresent(messages) ==
  \A n \in 1..Len(messages) : Get(messages[n], "line").t = "int"

\* the position of the first input message that has the key
FirstOccurrence(messages, key) ==
  CHOOSE n \in 1..Len(messages) :
    /\ ModuleInfo(Get(messages[n], "module"), Get(messages[n], "path")) = key
    /\ \A k \in 1..(n - 1) :
         ModuleInfo(Get(messages[k], "module"), Get(messages[k], "path")) # key

\* C6: for messages that all carry a line, given without stats, a missing
\* module or path raises no error, and Report.modules lists every group once,
\* in ascending path order, groups of equal path in the order their keys
\* first occur in the input.
C6_ModulesSortedByPath ==
  (/\ rp_pc # "input"
   /\ AllLinesPresent(in_messages)
   /\ rp_args = [stats |-> NoStats, previous_stats |-> NoStats])
  => /\ rp_pc = "done"
     /\ Len(report.modules) = Len(report._module_messages)
     /\ \A g \in 1..Len(report._module_messages) :
          Occurrences(report.modules, report._module_messages[g]) = 1
     /\ \A a, b \in 1..Len(report.modules) :
          a < b =>
            LET pa == report.modules[a].key.path
                pb == report.modules[b].key.path
            IN  /\ (pa.t = "str" /\ pb.t = "str") => ~PyLess(pb, pa)
                /\ pa = pb =>
                     FirstOccurrence(in_messages, report.modules[a].key)
                       < FirstOccurrence(in_messages, report.modules[b].key)

\* the score the claim expects for an optional stats argument
ExpectedScore(stats) ==
  IF stats.given THEN stats_evaluation(stats.d) ELSE NoneResult

\* C9: Report construction never raises, score is stats_evaluation(stats)
\* when stats is given and undefined otherwise, and previous_score likewise
\* from previous_stats alone.
C9_ScoresFromOptionalStats ==
  rp_pc # "input" =>
    /\ rp_pc = "done"
    /\ report.score = ExpectedScore(rp_args.stats)
    /\ report.previous_score = ExpectedScore(rp_args.previous_stats)

----------------------------------------------------------------------------
(* Claims about the round trip (checked under SpecRoundTrip) *)

\* the record a handled Message object stands for
RecordOf(msg) ==
  [key \in {"type", "module", "obj", "line", "column", "path", "symbol",
            "message", "message-id"} |->
     CASE key = "type" -> msg.category
       [] key = "module" -> msg.module
       [] key = "obj" -> msg.obj
       [] key = "line" -> msg.line
       [] key = "column" -> msg.column
       [] key = "path" -> msg.path
       [] key = "symbol" -> msg.symbol
       [] key = "message" -> msg.msg
       [] key = "message-id" -> msg.msg_id]

\* equal, but for a set that came back as a sequence of the same members
SameButSets(sent, got) ==
  IF sent.t = "set"
    THEN /\ got.t = "list"
         /\ Len(got.q) = Cardinality(sent.m)
         /\ {got.q[n] : n \in 1..Len(got.q)} = sent.m
    ELSE got = sent

SameStats(sent, got) ==
  /\ got.given = sent.given
  /\ DOMAIN got.d = DOMAIN sent.d
  /\ \A key \in DOMAIN sent.d : SameButSets(sent.d[key], got.d[key])

\* C10: what main decodes from the reporter's output is the handled messages
\* in the order handled, and the stats and previous stats on_close was given,
\* each set replaced by a sequence of its members.
C10_RoundTrip ==
  rt_pc = "loaded" =>
    /\ rt_loaded.messages = [n \in 1..Len(rt_handled) |-> RecordOf(rt_handled[n])]
    /\ SameStats(rt_closed_with.stats, rt_loaded.stats)
    /\ SameStats(rt_closed_with.previous_stats, rt_loaded.previous_stats)

\* two different messages, a stats dict holding a two-member set and no
\* previous stats went through the document
C10_Witness ==
  /\ rt_pc = "loaded"
  /\ Len(rt_handled) = 2
  /\ rt_handled[1] # rt_handled[2]
  /\ rt_handled[1].line = RNone
  /\ rt_closed_with.stats.given
  /\ rt_closed_with.stats.d.dependencies = RSet({"a", "b"})
  /\ rt_loaded.stats.d.dependencies = RList(<<"b", "a">>)
  /\ ~rt_closed_with.previous_stats.given
  /\ ~rt_loaded.previous_stats.given

====
